---- MODULE Spec2Model ----
(***************************************************************************)
(* Model of FaceFilterSystem (src/FaceFilters.py): construction, the       *)
(* capture loop of run(), process_frame() and the key dispatch.            *)
(*                                                                         *)
(* The filter classes of utils/Filters.py are not part of the sources; a   *)
(* filter is modelled as the record the loop uses (its name in the         *)
(* mapping, current_asset_idx, and the length of its assets list), and     *)
(* its constructor follows the documented load contract.                   *)
(***************************************************************************)
EXTENDS Integers, Sequences, FiniteSets, TLC

(* ---- bounds ---- *)
MaxAssets == 2      \* largest number of images in one asset directory
MaxFrames == 4      \* frames the capture delivers before end-of-stream

(* ---- program constants ---- *)
max_num_faces == 2  \* FaceMesh(max_num_faces=2)
KeyMask == 256      \* waitKey(1) & 0xFF

ORD_a == 97
ORD_c == 99
ORD_d == 100
ORD_e == 101
ORD_f == 102
ORD_l == 108
ORD_m == 109
ORD_n == 110
ORD_q == 113
ORD_s == 115
ORD_w == 119
ORD_z == 122

StandardKinds == <<"glasses", "hat", "nose", "mouth">>
FaceKinds == <<"face">>
Kinds == {"glasses", "hat", "nose", "mouth", "face"}

\* Values cv2.waitKey(1) can return: -1 (no key), the twelve command keys,
\* an unbound key ('x'), and a key code carrying bits above the low byte.
RawKeys ==
    {-1, ORD_a, ORD_c, ORD_d, ORD_e, ORD_f, ORD_l, ORD_m, ORD_n, ORD_q,
     ORD_s, ORD_w, ORD_z, 120, 256 + ORD_f}

VARIABLES
    pc,               \* position of the program ("failed": __init__ raised,
                      \* "crashed": an exception left run())
    dirs,             \* environment: number of loadable images per asset directory
    cap_available,    \* environment: whether the capture device can be opened
    cap_opened,       \* self.cap.isOpened()
    released,         \* number of self.cap.release() calls so far
    active_filters,   \* self.active_filters, a dict in insertion order
    is_face_selected, \* self.is_face_selected
    prev_time,        \* self.prev_time
    frame_count,      \* self.frame_count
    faces,            \* len(results.multi_face_landmarks) inside process_frame
    applied,          \* apply_filter calls on the frame not yet displayed, in order
    key,              \* local variable key of run()
    detects,          \* number of face_mesh.process calls so far
    filtered,         \* number of frames that went through the filter loops
    shown,            \* number of cv2.imshow calls so far
    polls,            \* number of cv2.waitKey calls so far
    exit_reason,      \* why the loop or the program ended
    round_trip        \* history: filters before the last toggle into FACE_MASK

vars == <<pc, dirs, cap_available, cap_opened, released, active_filters,
          is_face_selected, prev_time, frame_count, faces, applied, key,
          detects, filtered, shown, polls, exit_reason, round_trip>>

session == <<active_filters, is_face_selected>>
counters == <<frame_count, detects, filtered, applied, shown, polls>>

NoTrip == [pre |-> <<>>, mask |-> -1]

(* ---- filters (utils.Filters) ---- *)

\* Variant: the constructor accepts a directory without images.
LoadFails_Never(d, kind) == FALSE

\* A directory with no loadable image makes the constructor raise.
LoadFails(d, kind) == d[kind] = 0

\* A freshly constructed filter: selection index 0, assets loaded from disk.
LoadFilter(d, kind) ==
    [name |-> kind, current_asset_idx |-> 0, assets |-> d[kind]]

\* The dict literal {kind: Filter(dir), ...} for a configuration.
BuildFilters(d, kinds) == [i \in DOMAIN kinds |-> LoadFilter(d, kinds[i])]

BuildFails(d, kinds) == \E i \in DOMAIN kinds : LoadFails(d, kinds[i])

(* ---- dict access ---- *)

Keys(af) == {af[i].name : i \in DOMAIN af}

HasKey(af, kind) == kind \in Keys(af)

Get(af, kind) == af[CHOOSE i \in DOMAIN af : af[i].name = kind]

\* Variant: the new index is stored in every active filter.
SetIdx_All(af, kind, v) ==
    [i \in DOMAIN af |-> [af[i] EXCEPT !.current_asset_idx = v]]

SetIdx(af, kind, v) ==
    [i \in DOMAIN af |->
        IF af[i].name = kind THEN [af[i] EXCEPT !.current_asset_idx = v]
        ELSE af[i]]

(* ---- index arithmetic of the cycle commands ---- *)

\* Variant: cycle-next stops at the last asset instead of wrapping.
CycleNext_Clamped(i, n) == IF i + 1 < n THEN i + 1 ELSE i

CycleNext(i, n) == (i + 1) % n

\* Variant: cycle-prev without the modulo.
CyclePrev_NoWrap(i, n) == i - 1

CyclePrev(i, n) == (i - 1) % n

(* ---- key dispatch: the if/elif chain of run() ---- *)

MaskKey(raw) == raw % KeyMask

\* Variant: the hat keys are not guarded by the mode flag.
KeyBranch_HatUnguarded(k, face) ==
    IF k = ORD_e THEN <<"next", "hat">>
    ELSE IF k = ORD_q THEN <<"prev", "hat">>
    ELSE IF k = ORD_d /\ ~face THEN <<"next", "glasses">>
    ELSE IF k = ORD_a /\ ~face THEN <<"prev", "glasses">>
    ELSE IF k = ORD_w /\ ~face THEN <<"next", "nose">>
    ELSE IF k = ORD_s /\ ~face THEN <<"prev", "nose">>
    ELSE IF k = ORD_c /\ ~face THEN <<"next", "mouth">>
    ELSE IF k = ORD_z /\ ~face THEN <<"prev", "mouth">>
    ELSE IF k = ORD_f THEN <<"toggle", "">>
    ELSE IF k = ORD_m /\ face THEN <<"next", "face">>
    ELSE IF k = ORD_n /\ face THEN <<"prev", "face">>
    ELSE IF k = ORD_l THEN <<"quit", "">>
    ELSE <<"none", "">>

\* Variant: the quit key is guarded by the mode flag like the cycle keys.
KeyBranch_QuitGuarded(k, face) ==
    IF k = ORD_e /\ ~face THEN <<"next", "hat">>
    ELSE IF k = ORD_q /\ ~face THEN <<"prev", "hat">>
    ELSE IF k = ORD_d /\ ~face THEN <<"next", "glasses">>
    ELSE IF k = ORD_a /\ ~face THEN <<"prev", "glasses">>
    ELSE IF k = ORD_w /\ ~face THEN <<"next", "nose">>
    ELSE IF k = ORD_s /\ ~face THEN <<"prev", "nose">>
    ELSE IF k = ORD_c /\ ~face THEN <<"next", "mouth">>
    ELSE IF k = ORD_z /\ ~face THEN <<"prev", "mouth">>
    ELSE IF k = ORD_f THEN <<"toggle", "">>
    ELSE IF k = ORD_m /\ face THEN <<"next", "face">>
    ELSE IF k = ORD_n /\ face THEN <<"prev", "face">>
    ELSE IF k = ORD_l /\ ~face THEN <<"quit", "">>
    ELSE <<"none", "">>

\* Variant: the chain ends in a plain else that leaves the loop.
KeyBranch_ElseQuit(k, face) ==
    IF k = ORD_e /\ ~face THEN <<"next", "hat">>
    ELSE IF k = ORD_q /\ ~face THEN <<"prev", "hat">>
    ELSE IF k = ORD_d /\ ~face THEN <<"next", "glasses">>
    ELSE IF k = ORD_a /\ ~face THEN <<"prev", "glasses">>
    ELSE IF k = ORD_w /\ ~face THEN <<"next", "nose">>
    ELSE IF k = ORD_s /\ ~face THEN <<"prev", "nose">>
    ELSE IF k = ORD_c /\ ~face THEN <<"next", "mouth">>
    ELSE IF k = ORD_z /\ ~face THEN <<"prev", "mouth">>
    ELSE IF k = ORD_f THEN <<"toggle", "">>
    ELSE IF k = ORD_m /\ face THEN <<"next", "face">>
    ELSE IF k = ORD_n /\ face THEN <<"prev", "face">>
    ELSE <<"quit", "">>

\* The branch of the chain taken for a key in a mode: <<command, kind>>.
KeyBranch(k, face) ==
    IF k = ORD_e /\ ~face THEN <<"next", "hat">>
    ELSE IF k = ORD_q /\ ~face THEN <<"prev", "hat">>
    ELSE IF k = ORD_d /\ ~face THEN <<"next", "glasses">>
    ELSE IF k = ORD_a /\ ~face THEN <<"prev", "glasses">>
    ELSE IF k = ORD_w /\ ~face THEN <<"next", "nose">>
    ELSE IF k = ORD_s /\ ~face THEN <<"prev", "nose">>
    ELSE IF k = ORD_c /\ ~face THEN <<"next", "mouth">>
    ELSE IF k = ORD_z /\ ~face THEN <<"prev", "mouth">>
    ELSE IF k = ORD_f THEN <<"toggle", "">>
    ELSE IF k = ORD_m /\ face THEN <<"next", "face">>
    ELSE IF k = ORD_n /\ face THEN <<"prev", "face">>
    ELSE IF k = ORD_l THEN <<"quit", "">>
    ELSE <<"none", "">>

\* The configuration built by the toggle branch for the new mode.
ToggleKinds(face) == IF face THEN FaceKinds ELSE StandardKinds

(* ---- initial state: process start, before FaceFilterSystem() ---- *)

Init ==
    /\ pc = "start"
    /\ dirs \in [Kinds -> 0..MaxAssets]
    /\ cap_available \in BOOLEAN
    /\ cap_opened = FALSE
    /\ released = 0
    /\ active_filters = <<>>
    /\ is_face_selected = FALSE
    /\ prev_time = 0
    /\ frame_count = 0
    /\ faces = 0
    /\ applied = <<>>
    /\ key = -1
    /\ detects = 0
    /\ filtered = 0
    /\ shown = 0
    /\ polls = 0
    /\ exit_reason = "none"
    /\ round_trip = NoTrip

(* ---- FaceFilterSystem.__init__ ---- *)

\* Variant: the session starts in the mask configuration.
Construct_FaceMask ==
    /\ pc = "start"
    /\ cap_opened' = cap_available
    /\ IF BuildFails(dirs, FaceKinds)
       THEN /\ pc' = "failed"
            /\ exit_reason' = "AssetLoadError"
            /\ UNCHANGED active_filters
       ELSE /\ pc' = "loop"
            /\ active_filters' = BuildFilters(dirs, FaceKinds)
            /\ UNCHANGED exit_reason
    /\ is_face_selected' = TRUE
    /\ UNCHANGED <<dirs, cap_available, released, prev_time,
                   frame_count, faces, applied, key, detects, filtered, shown,
                   polls, round_trip>>

Construct ==
    /\ pc = "start"
    /\ cap_opened' = cap_available
    /\ IF BuildFails(dirs, StandardKinds)
       THEN /\ pc' = "failed"
            /\ exit_reason' = "AssetLoadError"
            /\ UNCHANGED active_filters
       ELSE /\ pc' = "loop"
            /\ active_filters' = BuildFilters(dirs, StandardKinds)
            /\ UNCHANGED exit_reason
    /\ is_face_selected' = FALSE
    /\ UNCHANGED <<dirs, cap_available, released, prev_time,
                   frame_count, faces, applied, key, detects, filtered, shown, polls,
                   round_trip>>

(* ---- run(): while self.cap.isOpened() ---- *)

LoopTest ==
    /\ pc = "loop"
    /\ IF cap_opened
       THEN pc' = "read" /\ UNCHANGED exit_reason
       ELSE pc' = "release" /\ exit_reason' = "not_open"
    /\ UNCHANGED <<dirs, cap_available, cap_opened, released, active_filters,
                   is_face_selected, prev_time, frame_count, faces, applied,
                   key, detects, filtered, shown, polls, round_trip>>

(* ---- process_frame(): success, frame = self.cap.read() ---- *)

\* Variant: the filters run on the landmarks of the previous detection, the
\* new frame is not passed to the face mesh.
ReadOk_NoDetect ==
    /\ pc = "read"
    /\ frame_count < MaxFrames
    /\ frame_count' = frame_count + 1
    /\ pc' = "filter"
    /\ UNCHANGED <<dirs, cap_available, cap_opened, released, active_filters,
                   is_face_selected, prev_time, faces, applied, key, detects,
                   filtered, shown, polls, exit_reason, round_trip>>

ReadOk ==
    /\ pc = "read"
    /\ frame_count < MaxFrames
    /\ frame_count' = frame_count + 1
    /\ pc' = "detect"
    /\ UNCHANGED <<dirs, cap_available, cap_opened, released, active_filters,
                   is_face_selected, prev_time, faces, applied, key, detects, filtered,
                   shown, polls, exit_reason, round_trip>>

\* Variant: process_frame does not return early and runs detection on the
\* missing frame before run breaks.
ReadFail_NoEarlyReturn ==
    /\ pc = "read"
    /\ pc' = "release"
    /\ exit_reason' = "read_fail"
    /\ detects' = detects + 1
    /\ UNCHANGED <<dirs, cap_available, cap_opened, released, active_filters,
                   is_face_selected, prev_time, frame_count, faces, applied,
                   key, filtered, shown, polls, round_trip>>

\* not success: process_frame returns None and run breaks.
ReadFail ==
    /\ pc = "read"
    /\ pc' = "release"
    /\ exit_reason' = "read_fail"
    /\ UNCHANGED <<dirs, cap_available, cap_opened, released, active_filters,
                   is_face_selected, prev_time, frame_count, faces, applied,
                   key, detects, filtered, shown, polls, round_trip>>

(* ---- process_frame(): results = self.face_mesh.process(frame_rgb) ---- *)

Detect ==
    /\ pc = "detect"
    /\ \E k \in 0..max_num_faces : faces' = k
    /\ detects' = detects + 1
    /\ pc' = "filter"
    /\ UNCHANGED <<dirs, cap_available, cap_opened, released, active_filters,
                   is_face_selected, prev_time, frame_count, applied, key,
                   filtered, shown, polls, exit_reason, round_trip>>

(* ---- process_frame(): the two nested for loops over faces and filters ---- *)

\* Variant: the two loops are nested the other way round.
ApplyCalls_FiltersOuter(af, nf) ==
    [j \in 1..(nf * Len(af)) |->
        <<((j - 1) % nf) + 1, af[((j - 1) \div nf) + 1].name>>]

\* The apply_filter calls for nf faces: faces outermost, dict order innermost.
ApplyCalls(af, nf) ==
    [j \in 1..(nf * Len(af)) |->
        <<((j - 1) \div Len(af)) + 1, af[((j - 1) % Len(af)) + 1].name>>]

\* A filter object after one apply_filter call (utils.Filters): compositing
\* draws on the frame and leaves the selection and the assets as they are.
AfterApply(f) == f

\* Variant: a frame without a face resets every selection to the first asset.
ApplyFilters_ResetOnLoss ==
    /\ pc = "filter"
    /\ applied' = ApplyCalls(active_filters, faces)
    /\ filtered' = filtered + 1
    /\ active_filters' =
          [i \in DOMAIN active_filters |->
              IF faces > 0 THEN AfterApply(active_filters[i])
              ELSE [active_filters[i] EXCEPT !.current_asset_idx = 0]]
    /\ pc' = "fps"
    /\ UNCHANGED <<dirs, cap_available, cap_opened, released,
                   is_face_selected, prev_time, frame_count, faces, key,
                   detects, shown, polls, exit_reason, round_trip>>

\* Variant: no `if results.multi_face_landmarks` guard, so the loop iterates
\* over None when no face was found and raises TypeError.
ApplyFilters_NoGuard ==
    /\ pc = "filter"
    /\ filtered' = filtered + 1
    /\ IF faces = 0
       THEN /\ pc' = "crashed"
            /\ exit_reason' = "TypeError"
            /\ UNCHANGED <<applied, active_filters>>
       ELSE /\ applied' = ApplyCalls(active_filters, faces)
            /\ active_filters' =
                  [i \in DOMAIN active_filters |-> AfterApply(active_filters[i])]
            /\ pc' = "fps"
            /\ UNCHANGED exit_reason
    /\ UNCHANGED <<dirs, cap_available, cap_opened, released,
                   is_face_selected, prev_time, frame_count, faces, key,
                   detects, shown, polls, round_trip>>

ApplyFilters ==
    /\ pc = "filter"
    /\ applied' = ApplyCalls(active_filters, faces)
    /\ filtered' = filtered + 1
    /\ active_filters' =
          [i \in DOMAIN active_filters |->
              IF faces > 0 THEN AfterApply(active_filters[i])
              ELSE active_filters[i]]
    /\ pc' = "fps"
    /\ UNCHANGED <<dirs, cap_available, cap_opened, released,
                   is_face_selected, prev_time, frame_count, faces, key,
                   detects, shown, polls, exit_reason, round_trip>>

(* ---- process_frame(): fps = 1 / (curr_time - self.prev_time) ---- *)

Fps ==
    /\ pc = "fps"
    /\ \E curr_time \in prev_time..(prev_time + 1) :
          IF curr_time - prev_time = 0
          THEN /\ pc' = "crashed"
               /\ exit_reason' = "ZeroDivisionError"
               /\ UNCHANGED <<prev_time, faces>>
          ELSE /\ pc' = "show"
               /\ prev_time' = curr_time
               /\ faces' = 0      \* results is local to process_frame
               /\ UNCHANGED exit_reason
    /\ UNCHANGED <<dirs, cap_available, cap_opened, released, active_filters,
                   is_face_selected, frame_count, applied, key,
                   detects, filtered, shown, polls, round_trip>>

(* ---- run(): cv2.imshow ---- *)

Show ==
    /\ pc = "show"
    /\ shown' = shown + 1
    /\ applied' = <<>>       \* the frame has left the filter stage
    /\ pc' = "poll"
    /\ UNCHANGED <<dirs, cap_available, cap_opened, released, active_filters,
                   is_face_selected, prev_time, frame_count, faces,
                   key, detects, filtered, polls, exit_reason, round_trip>>

(* ---- run(): key = cv2.waitKey(1) & 0xFF ---- *)

WaitKey ==
    /\ pc = "poll"
    /\ \E raw \in RawKeys : key' = MaskKey(raw)
    /\ polls' = polls + 1
    /\ pc' = "dispatch"
    /\ UNCHANGED <<dirs, cap_available, cap_opened, released, active_filters,
                   is_face_selected, prev_time, frame_count, faces, applied,
                   detects, filtered, shown, exit_reason, round_trip>>

(* ---- run(): the if/elif chain on key ---- *)

\* A cycle branch: self.active_filters[kind].current_asset_idx = (idx +- 1) % len(assets)
Cycle(cmd, kind) ==
    IF ~HasKey(active_filters, kind)
    THEN /\ pc' = "crashed"
         /\ exit_reason' = "KeyError"
         /\ UNCHANGED <<active_filters, is_face_selected>>
    ELSE IF Get(active_filters, kind).assets = 0
    THEN /\ pc' = "crashed"
         /\ exit_reason' = "ZeroDivisionError"
         /\ UNCHANGED <<active_filters, is_face_selected>>
    ELSE LET f == Get(active_filters, kind)
             v == IF cmd = "next"
                  THEN CycleNext(f.current_asset_idx, f.assets)
                  ELSE CyclePrev(f.current_asset_idx, f.assets)
         IN /\ active_filters' = SetIdx(active_filters, kind, v)
            /\ pc' = "loop"
            /\ UNCHANGED <<is_face_selected, exit_reason>>

\* Variant: switching back to STANDARD restores the filters that were active
\* before the switch to FACE_MASK instead of constructing new ones.
Toggle_Restoring ==
    /\ is_face_selected' = ~is_face_selected
    /\ IF BuildFails(dirs, ToggleKinds(~is_face_selected))
       THEN /\ pc' = "crashed"
            /\ exit_reason' = "AssetLoadError"
            /\ UNCHANGED active_filters
       ELSE /\ active_filters' = IF is_face_selected
                                 THEN round_trip.pre
                                 ELSE BuildFilters(dirs, FaceKinds)
            /\ pc' = "loop"
            /\ UNCHANGED exit_reason

\* The toggle branch: the flag is flipped first, then the filters are rebuilt.
Toggle ==
    /\ is_face_selected' = ~is_face_selected
    /\ IF BuildFails(dirs, ToggleKinds(~is_face_selected))
       THEN /\ pc' = "crashed"
            /\ exit_reason' = "AssetLoadError"
            /\ UNCHANGED active_filters
       ELSE /\ active_filters' = BuildFilters(dirs, ToggleKinds(~is_face_selected))
            /\ pc' = "loop"
            /\ UNCHANGED exit_reason

\* History of the last STANDARD -> FACE_MASK -> STANDARD round trip.
TripAfter(cmd) ==
    IF cmd = "toggle" /\ ~is_face_selected
    THEN [pre |-> active_filters, mask |-> -1]
    ELSE IF cmd = "toggle"
    THEN [round_trip EXCEPT !.mask = Get(active_filters, "face").current_asset_idx]
    ELSE IF is_face_selected THEN round_trip
    ELSE NoTrip

Dispatch ==
    /\ pc = "dispatch"
    /\ LET b == KeyBranch(key, is_face_selected) IN
          /\ round_trip' = TripAfter(b[1])
          /\ CASE b[1] \in {"next", "prev"} -> Cycle(b[1], b[2])
               [] b[1] = "toggle" -> Toggle
               [] b[1] = "quit" ->
                    /\ pc' = "release"
                    /\ exit_reason' = "quit"
                    /\ UNCHANGED <<active_filters, is_face_selected>>
               [] OTHER ->
                    /\ pc' = "loop"
                    /\ UNCHANGED <<active_filters, is_face_selected, exit_reason>>
    /\ UNCHANGED <<dirs, cap_available, cap_opened, released, prev_time,
                   frame_count, faces, applied, key, detects, filtered, shown, polls>>

(* ---- run(): self.cap.release(); cv2.destroyAllWindows() ---- *)

Release ==
    /\ pc = "release"
    /\ released' = released + 1
    /\ cap_opened' = FALSE
    /\ pc' = "done"
    /\ UNCHANGED <<dirs, cap_available, active_filters, is_face_selected,
                   prev_time, frame_count, faces, applied, key, detects, filtered,
                   shown, polls, exit_reason, round_trip>>

Next ==
    \/ Construct
    \/ LoopTest
    \/ ReadOk
    \/ ReadFail
    \/ Detect
    \/ ApplyFilters
    \/ Fps
    \/ Show
    \/ WaitKey
    \/ Dispatch
    \/ Release

Spec == Init /\ [][Next]_vars

TypeOK ==
    /\ pc \in {"start", "loop", "read", "detect", "filter", "fps", "show",
               "poll", "dispatch", "release", "done", "crashed", "failed"}
    /\ frame_count \in 0..MaxFrames
    /\ released \in 0..1

(***************************************************************************)
(* Properties                                                              *)
(***************************************************************************)

\* The FaceFilterSystem object exists (its __init__ returned).
Constructed == pc \notin {"start", "failed"}

StandardKeySet == {"glasses", "hat", "nose", "mouth"}
FaceKeySet == {"face"}

AllAtZero(af) == \A i \in DOMAIN af : af[i].current_asset_idx = 0

\* C1: every active filter's current_asset_idx lies in [0, len(assets)).
C1_IndexInRange ==
    \A i \in DOMAIN active_filters :
        /\ 0 <= active_filters[i].current_asset_idx
        /\ active_filters[i].current_asset_idx < active_filters[i].assets

\* C1 witness: cycle-prev on the hat filter wrapped from 0 to the last asset.
C1_Witness ==
    /\ pc = "loop"
    /\ key = ORD_q
    /\ ~is_face_selected
    /\ Get(active_filters, "hat").assets >= 2
    /\ Get(active_filters, "hat").current_asset_idx
         = Get(active_filters, "hat").assets - 1

\* C2: once constructed, the mode flag and the key set of active_filters
\* agree: flag False iff the keys are the four standard kinds, flag True iff
\* the only key is face.
C2_ModeMatchesMapping ==
    Constructed =>
        /\ (~is_face_selected) <=> (Keys(active_filters) = StandardKeySet)
        /\ is_face_selected <=> (Keys(active_filters) = FaceKeySet)

\* C3: handling the key 'f' always flips the mode, installs the filters of
\* the new configuration, all at index 0, and the loop continues.
C3_ToggleUnconditional ==
    [][(pc = "dispatch" /\ key = ORD_f) =>
          /\ is_face_selected' = ~is_face_selected
          /\ Keys(active_filters') =
                (IF is_face_selected' THEN FaceKeySet ELSE StandardKeySet)
          /\ AllAtZero(active_filters')
          /\ pc' = "loop"]_vars

\* A round trip STANDARD -> FACE_MASK -> STANDARD has just completed.
RoundTripDone == round_trip.mask >= 0

\* C4: right after toggling to FACE_MASK and back, the configuration is
\* STANDARD with glasses, hat, nose, mouth each at index 0 and no mask filter,
\* whatever the indices were before the first toggle.
C4_RoundTripResets ==
    RoundTripDone =>
        /\ ~is_face_selected
        /\ Len(active_filters) = 4
        /\ Keys(active_filters) = StandardKeySet
        /\ ~HasKey(active_filters, "face")
        /\ AllAtZero(active_filters)

\* C4 witness: a completed round trip that started from a non-zero index and
\* during which the mask filter was cycled; the non-zero index is gone.
C4_Witness ==
    /\ RoundTripDone
    /\ round_trip.mask > 0
    /\ \E i \in DOMAIN round_trip.pre : round_trip.pre[i].current_asset_idx > 0
    /\ AllAtZero(active_filters)
    /\ Keys(active_filters) = StandardKeySet

StandardCycleKeys == {ORD_e, ORD_q, ORD_d, ORD_a, ORD_w, ORD_s, ORD_c, ORD_z}
FaceCycleKeys == {ORD_m, ORD_n}

\* C5: a cycle key of the configuration that is not active changes neither
\* the mode, the mapping nor any index, and the loop continues without error.
C5_ForeignCycleKeyIgnored ==
    [][(/\ pc = "dispatch"
        /\ \/ is_face_selected /\ key \in StandardCycleKeys
           \/ ~is_face_selected /\ key \in FaceCycleKeys) =>
          /\ UNCHANGED <<active_filters, is_face_selected>>
          /\ pc' = "loop"]_vars

\* C5 witness: a hat key was handled in FACE_MASK and the loop went on.
C5_Witness ==
    /\ pc = "loop"
    /\ is_face_selected
    /\ key \in {ORD_e, ORD_q}
    /\ Keys(active_filters) = FaceKeySet

\* The accepted cycle commands: <<key, mode flag, direction, kind>>.
CycleTable ==
    {<<ORD_e, FALSE, 1, "hat">>, <<ORD_q, FALSE, -1, "hat">>,
     <<ORD_d, FALSE, 1, "glasses">>, <<ORD_a, FALSE, -1, "glasses">>,
     <<ORD_w, FALSE, 1, "nose">>, <<ORD_s, FALSE, -1, "nose">>,
     <<ORD_c, FALSE, 1, "mouth">>, <<ORD_z, FALSE, -1, "mouth">>,
     <<ORD_m, TRUE, 1, "face">>, <<ORD_n, TRUE, -1, "face">>}

\* The index after one step in a direction, written without arithmetic modulo.
Stepped(i, n, dir) ==
    IF dir = 1 THEN (IF i = n - 1 THEN 0 ELSE i + 1)
    ELSE (IF i = 0 THEN n - 1 ELSE i - 1)

RECURSIVE NextTimes(_, _, _)
NextTimes(i, n, k) == IF k = 0 THEN i ELSE NextTimes(CycleNext(i, n), n, k - 1)

\* C6, the round trips: for every active filter with N assets and every i in
\* [0, N), N cycle-next steps return to i and next/prev undo each other.
C6_RoundTrips ==
    \A j \in DOMAIN active_filters :
        LET n == active_filters[j].assets IN
        \A i \in 0..(n - 1) :
            /\ NextTimes(i, n, n) = i
            /\ CyclePrev(CycleNext(i, n), n) = i
            /\ CycleNext(CyclePrev(i, n), n) = i

\* C6, the step: an accepted cycle command moves the index of its filter one
\* place forward or backward, wrapping at both ends.
C6_Step ==
    \A c \in CycleTable :
        (pc = "dispatch" /\ key = c[1] /\ is_face_selected = c[2]) =>
            /\ pc' = "loop"
            /\ HasKey(active_filters', c[4])
            /\ Get(active_filters', c[4]).current_asset_idx =
                  Stepped(Get(active_filters, c[4]).current_asset_idx,
                          Get(active_filters, c[4]).assets, c[3])

\* C6: accepted cycle-next/prev set the index to (i + 1) mod N / (i - 1) mod N,
\* N cycle-next commands are the identity, and next and prev are inverses.
C6_CycleArithmetic == []C6_RoundTrips /\ [][C6_Step]_vars

\* C6 witness: cycle-next on glasses wrapped from the last asset to index 0.
C6_Witness ==
    /\ pc = "loop"
    /\ key = ORD_d
    /\ ~is_face_selected
    /\ Get(active_filters, "glasses").assets >= 2
    /\ Get(active_filters, "glasses").current_asset_idx = 0
    /\ polls >= Get(active_filters, "glasses").assets

\* C7: whenever run() has been left, normally or by an exception, the
\* capture has been released exactly once.
C7_ReleasedOnEveryExit ==
    /\ released <= 1
    /\ pc \in {"done", "crashed"} => released = 1

\* C8: the loop never runs while some asset directory, the face-mask one
\* included, is missing or empty: such a failure stops the program in __init__.
C8_LoadFailureAtStart ==
    (\E k \in Kinds : dirs[k] = 0) => pc \in {"start", "failed"}

\* C9, the step: when the capture is not open at the loop test or a read
\* fails, run goes straight to the release with no detection, filter call,
\* display or key poll and with the session untouched.
C9_Step ==
    (\/ pc = "loop" /\ ~cap_opened
     \/ pc = "read" /\ pc' # "detect") =>
        /\ pc' = "release"
        /\ UNCHANGED <<active_filters, is_face_selected>>
        /\ UNCHANGED <<frame_count, detects, filtered, applied, shown, polls>>

\* C9, the outcome: such an exit is never a crash and ends with the capture
\* released once.
C9_Outcome ==
    exit_reason \in {"not_open", "read_fail"} =>
        /\ pc \in {"release", "done"}
        /\ released = (IF pc = "done" THEN 1 ELSE 0)

\* C9: an unavailable capture or a failed read ends the loop as end-of-stream.
C9_EndOfStream == []C9_Outcome /\ [][C9_Step]_vars

\* C9 witness: a read failed after frames had been processed; run finished
\* with the capture released.
C9_Witness ==
    /\ pc = "done"
    /\ exit_reason = "read_fail"
    /\ frame_count >= 1
    /\ shown = frame_count
    /\ released = 1

\* C10, the step: the quit key leaves the loop and changes nothing else.
C10_Step ==
    (pc = "dispatch" /\ key = ORD_l) =>
        /\ pc' = "release"
        /\ UNCHANGED <<active_filters, is_face_selected>>
        /\ UNCHANGED <<frame_count, detects, filtered, applied, shown, polls>>

\* C10, afterwards: once the loop is left no frame is read, detected,
\* filtered or displayed, no key is processed, and the capture is released.
C10_After ==
    pc \in {"release", "done"} =>
        /\ pc' = "done"
        /\ released' = 1
        /\ UNCHANGED <<active_filters, is_face_selected, key>>
        /\ UNCHANGED <<frame_count, detects, filtered, applied, shown, polls>>

\* C10: the quit key 'l' ends the loop from either mode, leaves the session
\* as it is and is followed only by the release of the capture.
C10_QuitTerminates == [][C10_Step /\ C10_After]_vars

\* C10 witness: quit was pressed in FACE_MASK and run finished.
C10_Witness ==
    /\ pc = "done"
    /\ exit_reason = "quit"
    /\ key = ORD_l
    /\ is_face_selected
    /\ released = 1

CommandKeys ==
    {ORD_e, ORD_q, ORD_d, ORD_a, ORD_w, ORD_s, ORD_c, ORD_z, ORD_f, ORD_m,
     ORD_n, ORD_l}

\* C11: a polled key that is none of the twelve command keys, the no-key
\* value 255 included, changes neither the mode, the mapping nor an index,
\* raises nothing, and the loop goes on to its next iteration.
C11_UnrecognizedKeyIgnored ==
    [][(pc = "dispatch" /\ key \notin CommandKeys) =>
          /\ UNCHANGED <<active_filters, is_face_selected>>
          /\ UNCHANGED exit_reason
          /\ pc' = "loop"]_vars

\* C11 witness: the poll timed out (waitKey gave -1, masked to 255) and the
\* loop is back at its test.
C11_Witness ==
    /\ pc = "loop"
    /\ key = 255
    /\ polls >= 1
    /\ exit_reason = "none"

\* C12, the stages: for every frame the stages happen in the order capture,
\* detect, filter, render, poll, and no stage of the next frame starts before
\* the poll of this one.
C12_Stages ==
    /\ polls <= shown
    /\ shown <= filtered
    /\ filtered <= detects
    /\ detects <= frame_count
    /\ frame_count <= polls + 1

\* C12, the commands: the session changes only in the dispatch that follows
\* the poll, when the current frame has already been rendered.
C12_Step ==
    (Constructed /\ <<active_filters, is_face_selected>>' # <<active_filters, is_face_selected>>) =>
        /\ pc = "dispatch"
        /\ polls = frame_count
        /\ shown = frame_count

\* C12: each iteration runs capture, detect, filter, render, poll-input in
\* this order and a key command acts only after the render.
C12_StrictOrder == []C12_Stages /\ [][C12_Step]_vars

\* C12 witness: the second frame went through the filter loops with the mask
\* configuration that the toggle polled after the first frame installed.
C12_Witness ==
    /\ pc = "show"
    /\ frame_count = 2
    /\ is_face_selected
    /\ filtered = 2
    /\ shown = 1
    /\ Len(applied) >= 1

\* The kind order of the active configuration.
KindOrder == IF is_face_selected THEN <<"face">>
             ELSE <<"glasses", "hat", "nose", "mouth">>

RECURSIVE ExpectedCalls(_, _)
ExpectedCalls(nf, order) ==
    IF nf = 0 THEN <<>>
    ELSE ExpectedCalls(nf - 1, order) \o [p \in 1..Len(order) |-> <<nf, order[p]>>]

\* C13: after the filter loops of a frame with k faces the apply_filter calls
\* are exactly one per (face, active filter) pair, face by face, and within a
\* face in the order glasses, hat, nose, mouth (STANDARD) or face (FACE_MASK).
C13_ApplyOrder ==
    pc = "fps" => applied = ExpectedCalls(faces, KindOrder)

\* C13 witness: two faces on the frame right after a toggle round trip; the
\* eight calls come in the same order as before the toggles.
C13_Witness ==
    /\ pc = "fps"
    /\ faces = 2
    /\ RoundTripDone
    /\ ~is_face_selected
    /\ Len(applied) = 8
    /\ applied[1] = <<1, "glasses">>
    /\ applied[5] = <<2, "glasses">>

\* C14: the steps of process_frame (read, detection, filter loops, FPS) leave
\* the mode, the mapping and every selection index as they are, whatever the
\* number of detected faces.
C14_FrameKeepsSelection ==
    [][(pc \in {"read", "detect", "filter", "fps"}) =>
          (/\ active_filters' = active_filters
           /\ is_face_selected' = is_face_selected)]_vars

\* C14 witness: a frame without a face went through process_frame while a
\* selection made by an earlier key command was still in place.
C14_Witness ==
    /\ pc = "show"
    /\ frame_count >= 2
    /\ applied = <<>>
    /\ \E i \in DOMAIN active_filters : active_filters[i].current_asset_idx > 0

\* C15, the step: on a frame with zero faces the filter loops call no
\* apply_filter and raise nothing; process_frame does not return None for it
\* and returns the frame exactly when the clock reading advanced, as for any
\* other frame; a returned frame is displayed and then the key is polled.
C15_Step ==
    /\ (pc = "filter" /\ faces = 0) =>
          /\ applied' = <<>>
          /\ pc' = "fps"
          /\ UNCHANGED exit_reason
    /\ (pc = "fps" /\ applied = <<>>) =>
          /\ pc' # "release"
          /\ (pc' = "show") <=> (prev_time' > prev_time)
    /\ (pc = "show" /\ applied = <<>>) =>
          /\ shown' = shown + 1
          /\ pc' = "poll"
    /\ pc = "poll" =>
          /\ polls' = polls + 1
          /\ pc' = "dispatch"

C16_Start ==
    (pc = "loop" /\ frame_count = 0) =>
        /\ ~is_face_selected
        /\ Len(active_filters) = 4
        /\ Keys(active_filters) = StandardKeySet

\* C16, the step: the mode flag becomes True only by handling the key 'f'.
C16_Step ==
    (~is_face_selected /\ is_face_selected') => (pc = "dispatch" /\ key = ORD_f)

\* C16: the session starts in STANDARD and FACE_MASK is entered only through
\* the toggle command.
C16_InitialStandard == []C16_Start /\ [][C16_Step]_vars

\* C16 witness: the first key polled was 'f' and the session, started in
\* STANDARD, is now in FACE_MASK.
C16_Witness ==
    /\ pc = "loop"
    /\ polls = 1
    /\ key = ORD_f
    /\ is_face_selected
    /\ Keys(active_filters) = FaceKeySet

\* C17, the assets: every active filter has at least one asset.
C17_Assets ==
    \A i \in DOMAIN active_filters : active_filters[i].assets >= 1

\* C17, the step: an accepted cycle command raises nothing and touches
\* nothing but the mapping: the loop goes on, no capture, display or clock
\* state changes.
C17_Step ==
    (/\ pc = "dispatch"
     /\ \E c \in CycleTable : key = c[1] /\ is_face_selected = c[2]) =>
        /\ pc' = "loop"
        /\ UNCHANGED <<exit_reason, is_face_selected, cap_opened, released>>
        /\ UNCHANGED <<prev_time, frame_count, detects, filtered, shown, polls>>

\* C17: an accepted cycle command cannot fail: the modulus len(assets) is
\* never zero and the command completes as an index update.
C17_CycleCannotFail == []C17_Assets /\ [][C17_Step]_vars

\* C17 witness: cycle-next was accepted on a mask filter with a single asset
\* (modulo 1) and the loop went on.
C17_Witness ==
    /\ pc = "loop"
    /\ key = ORD_m
    /\ is_face_selected
    /\ HasKey(active_filters, "face")
    /\ Get(active_filters, "face").assets = 1
    /\ Get(active_filters, "face").current_asset_idx = 0
    /\ exit_reason = "none"

\* C18, the dispatch: handling one key runs at most one command: nothing, a
\* toggle, or one cycle command that changes the index of its own kind only
\* and leaves every other filter, the key set and the mode flag as they are.
C18_Dispatch ==
    pc = "dispatch" =>
        \/ /\ active_filters' = active_filters
           /\ is_face_selected' = is_face_selected
        \/ /\ key = ORD_f
           /\ is_face_selected' # is_face_selected
        \/ \E c \in CycleTable :
              /\ key = c[1]
              /\ is_face_selected = c[2]
              /\ is_face_selected' = is_face_selected
              /\ DOMAIN active_filters' = DOMAIN active_filters
              /\ \A i \in DOMAIN active_filters :
                    /\ active_filters'[i].name = active_filters[i].name
                    /\ active_filters'[i].assets = active_filters[i].assets
                    /\ active_filters[i].name # c[4] =>
                          active_filters'[i] = active_filters[i]

\* C18, the other steps: between two dispatches no command runs.
C18_Elsewhere ==
    (Constructed /\ pc # "dispatch") =>
        /\ active_filters' = active_filters
        /\ is_face_selected' = is_face_selected

\* C18: at most one command per loop iteration, and a cycle command for one
\* kind leaves the other filters alone.
C18_OneCommandOneKind == [][C18_Dispatch /\ C18_Elsewhere]_vars

\* C18 witness: hat and glasses were cycled by two separate commands, nose and
\* mouth stayed at index 0.
C18_Witness ==
    /\ pc = "loop"
    /\ ~is_face_selected
    /\ key = ORD_d
    /\ polls = 2
    /\ Keys(active_filters) = StandardKeySet
    /\ Get(active_filters, "hat").current_asset_idx = 1
    /\ Get(active_filters, "glasses").current_asset_idx = 1
    /\ Get(active_filters, "nose").current_asset_idx = 0
    /\ Get(active_filters, "mouth").current_asset_idx = 0

\* C19: every frame that was read is rendered before the next read, and run
\* is left only because the capture is not open, a read failed or quit was
\* pressed.
C19_EveryReadFrameRendered ==
    /\ pc \in {"loop", "read"} => shown = frame_count
    /\ pc \in {"release", "done", "crashed"} =>
          /\ exit_reason \in {"not_open", "read_fail", "quit"}
          /\ shown = frame_count
====
